---- MODULE Spec2Model ----
\* A verification model of JsModel: the Model record (src/src/Model.js), the
\* query Builder (src/unnamed/part_001), the ModelCollection pagination
\* (src/unnamed/part_005, lines 1-60) and the default HTTP driver
\* (src/src/HttpDrivers/JqueryHttpDriver.js).
EXTENDS Integers, Sequences, FiniteSets, TLC

VARIABLES
    model,       \* one Model instance: the `_` holder plus its own properties
    reqs,        \* requests of the instance handed to the driver, not yet answered
    ev,          \* the last operation or callback that ran on the instance
    calls,       \* how many calls the application has made on the instance
    constraints, \* Builder._constraints: [filter, value] in insertion order
    appends,     \* Builder.appends: [name, value] in insertion order
    heap,        \* the arrays and plain objects that values refer to
    held,        \* references the application got back from the builder
    bev,         \* the last call made on the builder
    bcalls,      \* how many calls the application has made on the builder
    example,     \* how far the run follows where(..).append('page', 5)
    coll,        \* the ModelCollection: whether a query is attached, and of the
                 \* loadNextPage() calls since none was outstanding: the page
                 \* before them, their number, and how many succeeded or got a
                 \* response no handler is registered for
    loads,       \* loadNextPage requests not yet answered
    pev,         \* the last pagination step
    pcalls,      \* how many pagination calls have been made
    wire,        \* requests executed by the default driver
    dev,         \* the last driver step
    twins,       \* a Model instance and the clone made of it
    objs,        \* the objects the two hold: `_.attributes`, `_.original`, nested values
    cev,         \* the last call made on either of the two
    ccalls       \* how many calls the application has made on the two

mvars == <<model, reqs, ev, calls>>
bvars == <<constraints, appends, heap, held, bev, bcalls, example>>
pvars == <<coll, loads, pev, pcalls>>
dvars == <<wire, dev>>
cvars == <<twins, objs, cev, ccalls>>
vars == <<model, reqs, ev, calls, constraints, appends, heap, held, bev, bcalls,
          example, coll, loads, pev, pcalls, wire, dev, twins, objs, cev, ccalls>>

----------------------------------------------------------------------------
\* Bounds of the model.

\* Requests of one instance that may be outstanding together.
MaxReqs == 2
\* Calls the application makes on one instance in a run.
MaxCalls == 4
\* Largest number whose decimal form counts as a numeric string.
MaxNum == 5
\* Arrays and plain objects alive at once.
MaxRefs == 4
\* Calls the application makes on one builder in a run.
MaxBuilderCalls == 3
\* loadNextPage requests that may be outstanding together.
MaxLoads == 2
\* Pagination calls made on one collection in a run.
MaxPageCalls == 6
\* Requests handed to the driver in a run.
MaxWire == 3
\* Calls the application makes on an instance and its clone in a run.
MaxCloneCalls == 3

----------------------------------------------------------------------------
\* JavaScript values. A value is its type tag (t), its String(value) form (s)
\* and, for a number, the number (n). A string is a sequence of chunks, each a
\* run of characters encodeURIComponent leaves alone or one single character
\* it escapes. An array or a plain object is a reference into the heap (two
\* objects are the same iff the references are).

Num(i)  == [t |-> "number", s |-> <<ToString(i)>>, n |-> i]
Str(cs) == [t |-> "string", s |-> cs, n |-> 0]
Arr(r)  == [t |-> "array", s |-> <<r>>, n |-> 0]
Obj(r)  == [t |-> "object", s |-> <<r>>, n |-> 0]
UNDEF   == [t |-> "undefined", s |-> <<"undefined">>, n |-> 0]
NULL    == [t |-> "null", s |-> <<"null">>, n |-> 0]
JSFALSE == [t |-> "boolean", s |-> <<"false">>, n |-> 0]
JSTRUE  == [t |-> "boolean", s |-> <<"true">>, n |-> 1]
\* Model.prototype.exists, the value of `this.exists` while nothing shadows it.
EXISTS_METHOD == [t |-> "function", s |-> <<"exists">>, n |-> 0]

Nullish == {"null", "undefined"}
IsRef(v) == v.t \in {"array", "object", "function"}

\* The decimal strings ToNumber reads as a number.
NumericStrings == {ToString(i) : i \in 0..MaxNum}

\* Whether ToNumber(v) is a number (not NaN), and then which.
IsNumeric(v) ==
    \/ v.t \in {"number", "boolean"}
    \/ v.t = "string" /\ (v.s = <<>> \/ (Len(v.s) = 1 /\ v.s[1] \in NumericStrings))

ToNumber(v) ==
    IF v.t \in {"number", "boolean"} THEN v.n
    ELSE IF v.s = <<>> THEN 0
    ELSE CHOOSE i \in 0..MaxNum : ToString(i) = v.s[1]

\* a == b of JavaScript (abstract equality), on the values of the model.
LooseEq(a, b) ==
    IF a.t = b.t THEN a = b
    ELSE IF a.t \in Nullish \/ b.t \in Nullish THEN a.t \in Nullish /\ b.t \in Nullish
    ELSE IF IsRef(a) \/ IsRef(b)
         THEN \* only plain objects meet primitives here: ToPrimitive is "[object Object]"
              LET p == IF IsRef(a) THEN b ELSE a
              IN  p.t = "string" /\ p.s = <<"[", "object", " ", "Object", "]">>
    ELSE IsNumeric(a) /\ IsNumeric(b) /\ ToNumber(a) = ToNumber(b)

----------------------------------------------------------------------------
\* The Model instance.

\* Attribute names of the model. "exists" is the name Builder.encapsulateData
\* writes on every model it wraps. The date names of getDates() (created_at,
\* updated_at) are outside this universe.
DataKeys == {"id", "name"}
Keys == DataKeys \cup {"exists"}

\* Values an application supplies to the constructor or assigns to a property.
CtorVals == {Num(5), Str(<<"Marcus">>), Str(<<>>), NULL, JSFALSE, Obj("r1")}
EditVals == {Str(<<>>)}
\* Values of the records _hydrate is called with directly.
HydrateVals == {Num(5)}

\* A mapping is a function on Keys; UNDEF marks a key the mapping does not hold.
EmptyMap == [k \in Keys |-> UNDEF]
KeysOf(map) == {k \in Keys : map[k] # UNDEF}
CtorMaps == {a \in [Keys -> CtorVals \cup {UNDEF}] : a["exists"] = UNDEF}
\* The constructor mappings the life cycle of an instance starts from.
StartVals == {Num(5), NULL}
StartMaps == {a \in [Keys -> StartVals \cup {UNDEF}] : a["exists"] = UNDEF}

\* Data mappings _hydrate is called with directly.
HydrateMaps == {a \in [Keys -> HydrateVals \cup {UNDEF}] : a["exists"] = UNDEF /\ a["id"] # UNDEF}

primary_key == "id"

\* Whether `this.exists` still is the prototype method: no own property named
\* "exists" (a data property or an accessor) shadows it.
ExistsCallable(m) ==
    /\ m.dyn["exists"] = UNDEF
    /\ "exists" \notin (m.accE \cup m.accN)

\* this[k]
PropGet(m, k) ==
    IF k \notin Keys THEN UNDEF
    ELSE IF k \in (m.accE \cup m.accN) THEN m.attributes[k]
    ELSE IF m.dyn[k] # UNDEF THEN m.dyn[k]
    ELSE IF k = "exists" THEN EXISTS_METHOD
    ELSE UNDEF

\* this[k] = v
PropSet(m, k, v) ==
    IF k \in (m.accE \cup m.accN)
    THEN [m EXCEPT !.attributes[k] = v]
    ELSE [m EXCEPT !.dyn[k] = v]

\* new Model(attributes): the `_` holder, then fill(attributes).
Construct(a) ==
    [attributes |-> EmptyMap, original |-> EmptyMap, dyn |-> a,
     accE |-> {}, accN |-> {}, syncing |-> FALSE, exists |-> FALSE,
     holder |-> "state"]

\* The keys of the object getAttributes() returns.
GetAttributesKeys(m) == KeysOf(m.attributes) \cup KeysOf(m.dyn) \cup m.accE

GetAttributes(m) ==
    [k \in Keys |-> IF k \in GetAttributesKeys(m) THEN PropGet(m, k) ELSE UNDEF]

GetAttribute(m, k) ==
    IF k \notin Keys THEN UNDEF
    ELSE IF m.attributes[k] = UNDEF THEN PropGet(m, k) ELSE m.attributes[k]

GetOriginal(m, k) == m.original[k]

HasOriginal(m, k) == m.original[k] # UNDEF

\* The test of dirty(): value != this.getOriginal(key).
DirtyTest(value, orig) == ~LooseEq(value, orig)

DirtyKeys(m) ==
    {k \in GetAttributesKeys(m) : DirtyTest(GetAttribute(m, k), GetOriginal(m, k))}

Dirty(m) == [k \in Keys |-> IF k \in DirtyKeys(m) THEN GetAttribute(m, k) ELSE UNDEF]

\* The second loop of _hydrate: Object.defineProperty(this, key, {configurable,
\* get, set}) for every key of _.attributes. A data property becomes an accessor
\* and keeps its enumerable flag; a new property is not enumerable.
DefineAccessors(m) ==
    LET ks == KeysOf(m.attributes)
        wasData == {k \in ks : m.dyn[k] # UNDEF}
    IN  [m EXCEPT !.dyn = [k \in Keys |-> IF k \in ks THEN UNDEF ELSE m.dyn[k]],
                  !.accE = m.accE \cup wasData,
                  !.accN = m.accN \cup (ks \ (wasData \cup m.accE))]

\* Whether _hydrate copies a value into _.original: if (this.exists()).
HydrateKeepsOriginal(m) == m.exists

\* _hydrate(a): the states it can end in, each with whether it threw. With
\* `this.exists` shadowed the call this.exists() throws a TypeError in the first
\* iteration, after that key's attribute was stored; which key comes first is
\* the payload's key order.
Hydrate(m, a) ==
    IF KeysOf(a) = {} THEN {[m |-> [DefineAccessors(m) EXCEPT !.exists = TRUE], threw |-> FALSE]}
    ELSE IF ExistsCallable(m)
    THEN LET over(f) == [k \in Keys |-> IF a[k] # UNDEF THEN a[k] ELSE f[k]]
             m1 == [m EXCEPT !.attributes = over(m.attributes),
                             !.original = IF HydrateKeepsOriginal(m)
                                          THEN over(m.original) ELSE m.original]
         IN  {[m |-> [DefineAccessors(m1) EXCEPT !.exists = TRUE], threw |-> FALSE]}
    ELSE {[m |-> [m EXCEPT !.attributes[k] = a[k]], threw |-> TRUE] : k \in KeysOf(a)}

\* A reset() that kept the current value of every attribute.
ResetKeepsCurrent(m, k) == m.attributes[k]

\* reset(): restore or drop every stored attribute, then delete every own
\* enumerable property of the instance.
ResetRestores(m, k) == IF HasOriginal(m, k) THEN GetOriginal(m, k) ELSE UNDEF

Reset(m) ==
    [m EXCEPT !.attributes = [k \in Keys |-> IF m.attributes[k] # UNDEF
                                             THEN ResetRestores(m, k) ELSE UNDEF],
              !.dyn = EmptyMap,
              !.accE = {}]

\* fill(attributes) for the keys ks of the mapping: this[key] = attributes[key].
FillKeys(m, a, ks) ==
    [m EXCEPT !.attributes = [k \in Keys |->
                                IF k \in ks /\ k \in (m.accE \cup m.accN)
                                THEN a[k] ELSE m.attributes[k]],
              !.dyn = [k \in Keys |->
                         IF k \in ks /\ k \notin (m.accE \cup m.accN)
                         THEN a[k] ELSE m.dyn[k]]]

\* A fill that assigned the key '_' like any other: `this._ = attributes._`.
FillUnchecked(m, a, before) ==
    [m |-> [FillKeys(m, a, KeysOf(a)) EXCEPT !.holder = "data"], threw |-> "none"]

\* fill(attributes) with a mapping that holds the key '_' after the keys
\* `before`: those are assigned, then InvalidAttributeException is thrown.
FillReserved(m, a, before) ==
    [m |-> FillKeys(m, a, before), threw |-> "InvalidAttributeException"]

\* _hydrate(attributes) with a mapping that holds the key '_' after the keys
\* `before`: the outcomes, by which of those keys comes first. The first key
\* is stored and this.exists() called before '_' is met.
HydrateReserved(m, a, before) ==
    IF before = {} THEN {[m |-> m, threw |-> "InvalidAttributeException"]}
    ELSE IF ExistsCallable(m)
    THEN {[m |-> [m EXCEPT
                    !.attributes = [k \in Keys |-> IF k \in before THEN a[k] ELSE @[k]],
                    !.original = [k \in Keys |->
                                    IF k \in before /\ HydrateKeepsOriginal(m)
                                    THEN a[k] ELSE @[k]]],
           threw |-> "InvalidAttributeException"]}
    ELSE {[m |-> [m EXCEPT !.attributes[k] = a[k]], threw |-> "TypeError"] : k \in before}

\* Builder.encapsulateData on one record of a payload: newModel(record), then
\* `items[i].exists = true`, an own data property of the wrapped model.
Encapsulate(rec) == PropSet(Construct(rec), "exists", JSTRUE)

----------------------------------------------------------------------------
\* Requests of the instance. save() and deleteModel() hand a request to the
\* driver and return; the driver answers later with one status code.

\* An event: what ran (op), on which kind of request and with which status code,
\* the record of the instance when the request was made (pre), whether the
\* server echoed the saved record, and the request's quiet and overlap marks.
NoEvent(op) ==
    [op |-> op, kind |-> "none", code |-> 0, pre |-> EmptyMap, echoed |-> FALSE,
     quiet |-> FALSE, overlap |-> FALSE, told |-> <<>>]

\* The caller's callbacks a handler runs: success(...) and error(response, code).
ToldSuccess == <<[fn |-> "success", code |-> 200]>>
ToldError(code) == <<[fn |-> "error", code |-> code]>>

\* The outstanding requests, oldest first.
Outstanding == 1..Len(reqs)
CanDispatch == Len(reqs) < MaxReqs
CanCall == calls < MaxCalls

\* Status codes the default driver maps onto a request's callbacks.
FailureCodes == {422, 500, 403}

\* Every other operation on the instance ends the quiet life of a request.
Disturb(rs) == [i \in 1..Len(rs) |-> [rs[i] EXCEPT !.quiet = FALSE]]

\* A new request next to outstanding ones: all of them overlap.
Dispatch(rs, r) ==
    Append([i \in 1..Len(rs) |-> [rs[i] EXCEPT !.overlap = TRUE, !.quiet = FALSE]],
           [r EXCEPT !.overlap = (rs # <<>>)])

\* The record of the instance: every attribute getAttributes() lists, with the
\* value getAttribute() reads.
Stored(m) == [k \in Keys |-> IF k \in GetAttributesKeys(m) THEN GetAttribute(m, k) ELSE UNDEF]

\* A request: what it carries, the instance's record when it was made (pre), the
\* record a server that saved it echoes (echo), whether another request of the
\* instance was outstanding during its life (overlap) and whether nothing else
\* has touched the instance since it was made (quiet).
NewRequest(kind, m, sent, filter) ==
    [kind |-> kind, sent |-> sent, filter |-> filter,
     pre |-> Stored(m),
     echo |-> [k \in Keys |-> IF k \in DataKeys THEN Stored(m)[k] ELSE UNDEF],
     overlap |-> FALSE, quiet |-> TRUE]

\* A save() that did not touch the syncing flag.
SaveLeavesSyncing(m) == m

\* save(): the first statement, instance._.syncing = true.
SaveMarksSyncing(m) == [m EXCEPT !.syncing = TRUE]

\* save(): update when this.exists(), insert otherwise.
SaveKind(m) == IF m.exists THEN "update" ELSE "insert"

\* The attributes save() sends: dirty() plus the primary key's current value.
SaveAttributes(m) == [Dirty(m) EXCEPT ![primary_key] = GetAttribute(m, primary_key)]

\* model[k] = v by the application.
SetAttr(k, v) ==
    /\ CanCall /\ calls' = calls + 1
    /\ model' = PropSet(model, k, v)
    /\ reqs' = Disturb(reqs)
    /\ ev' = NoEvent("set")

\* _hydrate(a) called with a plain data mapping.
HydrateCall(a) ==
    /\ CanCall /\ calls' = calls + 1
    /\ \E h \in Hydrate(model, a) :
          /\ model' = h.m
          /\ ev' = NoEvent(IF h.threw THEN "hydrateThrew" ELSE "hydrate")
    /\ reqs' = Disturb(reqs)

\* fill(a) and _hydrate(a) with a mapping that holds the key '_'.
FillReservedCall(a, before) ==
    /\ CanCall /\ calls' = calls + 1
    /\ LET f == FillReserved(model, a, before)
       IN  /\ model' = f.m
           /\ ev' = [NoEvent("fillReserved") EXCEPT !.kind = f.threw]
    /\ reqs' = Disturb(reqs)

HydrateReservedCall(a, before) ==
    /\ CanCall /\ calls' = calls + 1
    /\ \E h \in HydrateReserved(model, a, before) :
          /\ model' = h.m
          /\ ev' = [NoEvent("hydrateReserved") EXCEPT !.kind = h.threw]
    /\ reqs' = Disturb(reqs)

ResetCall ==
    /\ CanCall /\ calls' = calls + 1
    /\ model' = Reset(model)
    /\ reqs' = Disturb(reqs)
    /\ ev' = NoEvent("reset")

\* save() on an instance whose `exists` is shadowed: this.exists() throws a
\* TypeError after syncing was set and before any request is built.
SaveThrows ==
    /\ CanCall /\ calls' = calls + 1
    /\ ~ExistsCallable(model)
    /\ model' = SaveMarksSyncing(model)
    /\ reqs' = Disturb(reqs)
    /\ ev' = NoEvent("saveThrew")

SaveCall ==
    /\ CanCall /\ calls' = calls + 1
    /\ ExistsCallable(model)
    /\ CanDispatch
    /\ LET m1 == SaveMarksSyncing(model)
           r == NewRequest(SaveKind(m1), m1, SaveAttributes(m1),
                           IF SaveKind(m1) = "update"
                           THEN GetAttribute(m1, primary_key) ELSE UNDEF)
       IN  /\ model' = m1
           /\ reqs' = Dispatch(reqs, r)
           /\ ev' = [NoEvent("save") EXCEPT !.kind = r.kind]

\* deleteModel(): the first statement, instance._.syncing = true.
DeleteMarksSyncing(m) == [m EXCEPT !.syncing = TRUE]

\* deleteModel() on an instance whose `exists` is shadowed: TypeError.
DeleteThrows ==
    /\ CanCall /\ calls' = calls + 1
    /\ ~ExistsCallable(model)
    /\ model' = DeleteMarksSyncing(model)
    /\ reqs' = Disturb(reqs)
    /\ ev' = NoEvent("deleteThrew")

\* deleteModel() on a model that does not exist: nothing after the first statement.
DeleteNoRequest ==
    /\ CanCall /\ calls' = calls + 1
    /\ ExistsCallable(model)
    /\ ~model.exists
    /\ model' = DeleteMarksSyncing(model)
    /\ reqs' = Disturb(reqs)
    /\ ev' = NoEvent("deleteNoRequest")

\* The request Builder.delete hands to the driver (the Builder of
\* src/unnamed/part_001 defines the operation as deleteResults).
BuilderDelete(m) == NewRequest("delete", m, EmptyMap, GetAttribute(m, primary_key))

DeleteCall ==
    /\ CanCall /\ calls' = calls + 1
    /\ ExistsCallable(model)
    /\ model.exists
    /\ CanDispatch
    /\ LET m1 == DeleteMarksSyncing(model)
       IN  /\ model' = m1
           /\ reqs' = Dispatch(reqs, BuilderDelete(m1))
           /\ ev' = [NoEvent("delete") EXCEPT !.kind = "delete"]

----------------------------------------------------------------------------
\* Callbacks. Each yields the states the instance can be left in and what ran.

\* _hydrate with the attributes of a wrapped payload record.
HydrateFrom(m, rec) == Hydrate(m, GetAttributes(Encapsulate(rec)))

\* The success callback save() gives to insert (Model.js 390-399).
InsertSuccess(m, data) ==
    LET m1 == [m EXCEPT !.syncing = FALSE]
    IN  IF data = <<>>
        THEN {[m |-> m1, op |-> "callbackThrew", told |-> <<>>]}   \* model is undefined
        ELSE {IF h.threw THEN [m |-> h.m, op |-> "callbackThrew", told |-> <<>>]
              ELSE [m |-> [h.m EXCEPT !.exists = TRUE], op |-> "saved",
                    told |-> ToldSuccess]
              : h \in HydrateFrom(m1, data[1])}

\* Whether the update callback hydrates from a returned item.
SameContact(m, rec) ==
    LooseEq(PropGet(Encapsulate(rec), "customer_contact_id"),
            PropGet(m, "customer_contact_id"))

RECURSIVE HydrateMatching(_, _)
HydrateMatching(m, items) ==
    IF items = <<>> THEN {[m |-> m, threw |-> FALSE]}
    ELSE IF ~SameContact(m, Head(items)) THEN HydrateMatching(m, Tail(items))
    ELSE UNION {IF h.threw THEN {h} ELSE HydrateMatching(h.m, Tail(items))
                : h \in HydrateFrom(m, Head(items))}

\* The success callback save() gives to update (Model.js 366-378).
UpdateSuccess(m, data) ==
    LET m1 == [m EXCEPT !.syncing = FALSE]
    IN  {[m |-> h.m, op |-> IF h.threw THEN "callbackThrew" ELSE "saved",
          told |-> IF h.threw THEN <<>> ELSE ToldSuccess]
         : h \in HydrateMatching(m1, data)}

\* The failure callback of save(), the same on both paths (Model.js 379-388, 400-407).
SaveFailureClears(code) == code = 422

\* A failure callback that rolls the instance back as deleteModel()'s does.
SaveFailureResets(m, code) ==
    {[m |-> IF SaveFailureClears(code) THEN Reset([m EXCEPT !.syncing = FALSE]) ELSE m,
      op |-> "saveFailed", told |-> ToldError(code)]}

SaveFailure(m, code) ==
    {[m |-> IF SaveFailureClears(code) THEN [m EXCEPT !.syncing = FALSE] ELSE m,
      op |-> "saveFailed", told |-> ToldError(code)]}

\* The success callback of deleteModel() (Model.js 449-456). The function that
\* builds it is called with (this.getAttributes(), success): inside, `success`
\* names the attributes, which are no function, and nothing is told.
DeleteSuccess(m, data) ==
    LET m1 == [m EXCEPT !.syncing = FALSE]
    IN  IF data = <<>>
        THEN {[m |-> m1, op |-> "callbackThrew", told |-> <<>>]}   \* results.first() is no model
        ELSE {[m |-> h.m, op |-> IF h.threw THEN "callbackThrew" ELSE "deleted",
               told |-> <<>>]
              : h \in HydrateFrom(m1, data[1])}

\* The failure callback of deleteModel() (Model.js 457-467).
DeleteFailureRollsBack(code) == code = 422 \/ code = 403

DeleteFailure(m, code) ==
    {[m |-> IF DeleteFailureRollsBack(code)
            THEN Reset([m EXCEPT !.syncing = FALSE]) ELSE m,
      op |-> "deleteFailed", told |-> ToldError(code)]}

\* The payloads a server answers a request with: no record, or the record saved.
Payloads(r) == {<<>>, <<r.echo>>}

Without(rs, i) == [j \in 1..(Len(rs) - 1) |-> IF j < i THEN rs[j] ELSE rs[j + 1]]

Finish(i, echoed, code, outs) ==
    \E o \in outs :
        /\ model' = o.m
        /\ reqs' = Disturb(Without(reqs, i))
        /\ ev' = [op |-> o.op, kind |-> reqs[i].kind, code |-> code,
                  pre |-> reqs[i].pre, echoed |-> echoed,
                  quiet |-> reqs[i].quiet, overlap |-> reqs[i].overlap,
                  told |-> o.told]
        /\ calls' = calls

\* The driver answers request i with 200.
RespondSuccess(i) ==
    /\ i \in Outstanding
    /\ \E data \in Payloads(reqs[i]) :
          Finish(i, data = <<reqs[i].echo>>, 200,
                 CASE reqs[i].kind = "insert" -> InsertSuccess(model, data)
                   [] reqs[i].kind = "update" -> UpdateSuccess(model, data)
                   [] reqs[i].kind = "delete" -> DeleteSuccess(model, data))

\* The driver answers request i with 422, 500 or 403.
RespondFailure(i, code) ==
    /\ i \in Outstanding
    /\ Finish(i, FALSE, code,
              IF reqs[i].kind = "delete" THEN DeleteFailure(model, code)
              ELSE SaveFailure(model, code))

ModelInit ==
    /\ \E a \in StartMaps : model = Construct(a)
    /\ reqs = <<>>
    /\ ev = NoEvent("construct")
    /\ calls = 0

----------------------------------------------------------------------------
\* The Builder (src/unnamed/part_001).

\* The heap of arrays and plain objects. A cell holds its entries in order, each
\* a key (used by objects only) and a value.
RefName(i) == "r" \o ToString(i)
Refs == {RefName(i) : i \in 1..MaxRefs}
FreeCell == [kind |-> "free", items |-> <<>>]
Entry(k, v) == [k |-> k, v |-> v]
FreeIn(h) == {r \in Refs : h[r].kind = "free"}
NewRef(h) == RefName(CHOOSE i \in 1..MaxRefs :
                       /\ RefName(i) \in FreeIn(h)
                       /\ \A j \in 1..MaxRefs : RefName(j) \in FreeIn(h) => i <= j)

\* String(v) as chunks: Array.prototype.join for an array (null and undefined
\* elements are empty), "[object Object]" for a plain object.
RECURSIVE StringOf(_, _)
RECURSIVE JoinItems(_, _)
JoinItems(items, h) ==
    IF items = <<>> THEN <<>>
    ELSE (IF Head(items).v.t \in Nullish THEN <<>> ELSE StringOf(Head(items).v, h))
         \o (IF Len(items) > 1 THEN <<",">> ELSE <<>>)
         \o JoinItems(Tail(items), h)

StringOf(v, h) ==
    CASE v.t = "array"  -> JoinItems(h[v.s[1]].items, h)
      [] v.t = "object" -> <<"[", "object", " ", "Object", "]">>
      [] OTHER          -> v.s

\* encodeURIComponent: the characters it escapes, as they occur in the model.
Escapes == [c \in {"/", " ", "[", "]", ","} |->
               CASE c = "/" -> "%2F" [] c = " " -> "%20" [] c = "[" -> "%5B"
                 [] c = "]" -> "%5D" [] c = "," -> "%2C"]

RECURSIVE EncodeURIComponent(_)
EncodeURIComponent(cs) ==
    IF cs = <<>> THEN ""
    ELSE (IF Head(cs) \in DOMAIN Escapes THEN Escapes[Head(cs)] ELSE Head(cs))
         \o EncodeURIComponent(Tail(cs))

\* The variables a new Builder is seeded with.
DefaultAppends == <<[name |-> <<"limit">>, value |-> Num(15)],
                    [name |-> <<"page">>, value |-> Num(1)]>>

\* Collection.get(key): the position of the item with that key, 0 if none.
IndexOf(list, field, key) ==
    IF \E i \in 1..Len(list) : list[i][field] = key
    THEN CHOOSE i \in 1..Len(list) :
            list[i][field] = key /\ \A j \in 1..(i - 1) : list[j][field] # key
    ELSE 0

HasVariable(ap, name) == IndexOf(ap, "name", name) # 0
HasConstraint(cs, filter) == IndexOf(cs, "filter", filter) # 0

\* getVariable(name, default_result = null): the stored value itself.
GetVariable(ap, name) ==
    IF HasVariable(ap, name) THEN ap[IndexOf(ap, "name", name)].value ELSE NULL

\* An append that replaced the value of a variable already present.
AppendOverwrites(ap, name, value) ==
    IF HasVariable(ap, name)
    THEN [threw |-> "none",
          appends |-> [ap EXCEPT ![IndexOf(ap, "name", name)].value = value]]
    ELSE [threw |-> "none", appends |-> Append(ap, [name |-> name, value |-> value])]

\* An append that pushed the variable before it looked for the duplicate.
AppendThrowsLate(ap, name, value) ==
    [threw |-> IF HasVariable(ap, name) THEN "DuplicateVariableException" ELSE "none",
     appends |-> Append(ap, [name |-> name, value |-> value])]

\* An append that never looked for the duplicate.
AppendDuplicates(ap, name, value) ==
    [threw |-> "none", appends |-> Append(ap, [name |-> name, value |-> value])]

\* append(name, value): the variables afterwards, or "DuplicateVariableException".
Append_(ap, name, value) ==
    IF HasVariable(ap, name)
    THEN [threw |-> "DuplicateVariableException", appends |-> ap]
    ELSE [threw |-> "none", appends |-> Append(ap, [name |-> name, value |-> value])]

\* updateVariable as it would be if an unknown name were appended.
UpdateVariableAppends(ap, name, value) ==
    [threw |-> "none",
     appends |-> IF HasVariable(ap, name)
                 THEN [ap EXCEPT ![IndexOf(ap, "name", name)].value = value]
                 ELSE Append(ap, [name |-> name, value |-> value])]

\* updateVariable(name, value)
UpdateVariable(ap, name, value) ==
    IF HasVariable(ap, name)
    THEN [threw |-> "none",
          appends |-> [ap EXCEPT ![IndexOf(ap, "name", name)].value = value]]
    ELSE [threw |-> "UnknownVariableException", appends |-> ap]

\* setLimit and orderBy: update the variable if present, append it otherwise.
Upsert(ap, name, value) ==
    IF HasVariable(ap, name) THEN UpdateVariable(ap, name, value)
    ELSE Append_(ap, name, value)

GetLimit(ap) == IF HasVariable(ap, <<"limit">>) THEN GetVariable(ap, <<"limit">>) ELSE Num(-1)

CurrentPage(ap) == ap[IndexOf(ap, "name", <<"page">>)].value

\* setPage(page): this.appends.get('page').value = page
SetPage(ap, page) == [ap EXCEPT ![IndexOf(ap, "name", <<"page">>)].value = page]

\* value + 1 and value - 1 of JavaScript: a string, array or object is
\* concatenated with "1" by +, and read as a number by -.
NAN == [t |-> "number", s |-> <<"NaN">>, n |-> 0]

PlusOne(v, h) ==
    CASE v.t = "number" -> IF v = NAN THEN NAN ELSE Num(v.n + 1)
      [] v.t \in {"string", "array", "object"} -> Str(StringOf(v, h) \o <<"1">>)
      [] v.t = "undefined" -> NAN
      [] OTHER -> Num(v.n + 1)

MinusOne(v, h) ==
    LET p == IF IsRef(v) THEN Str(StringOf(v, h)) ELSE v
    IN  IF p.t = "null" THEN Num(-1)
        ELSE IF p = NAN \/ ~IsNumeric(p) THEN NAN
        ELSE Num(ToNumber(p) - 1)

\* An incrementPage that skipped a page.
IncrementPageSkips(ap, h) == SetPage(ap, PlusOne(PlusOne(CurrentPage(ap), h), h))

IncrementPage(ap, h) == SetPage(ap, PlusOne(CurrentPage(ap), h))
DecrementPage(ap, h) == SetPage(ap, MinusOne(CurrentPage(ap), h))

\* A where that pushed a constraint whether or not the filter had one.
WhereAlwaysPushes(cs, filter, value) == Append(cs, [filter |-> filter, value |-> value])

\* A where that moved the constraint of an existing filter to the end.
WhereMovesToEnd(cs, filter, value) ==
    Append(SelectSeq(cs, LAMBDA c : c.filter # filter), [filter |-> filter, value |-> value])

\* where(filter, value): upsert by filter name.
Where(cs, filter, value) ==
    IF HasConstraint(cs, filter)
    THEN [cs EXCEPT ![IndexOf(cs, "filter", filter)].value = value]
    ELSE Append(cs, [filter |-> filter, value |-> value])

\* toQueryString(): the separator, the segments, the `first` flag. A segment is
\* kept as its separator, its text, and the filter or variable it comes from.
Sep(first) == IF first THEN "?" ELSE "&"

Segment(first, body, of, key) == [sep |-> Sep(first), body |-> body, of |-> of, key |-> key]

ConstraintSegment(c, h) ==
    "filters[" \o EncodeURIComponent(c.filter) \o "][]="
               \o EncodeURIComponent(StringOf(c.value, h))

RECURSIVE ConstraintPart(_, _, _)
ConstraintPart(cs, h, first) ==
    IF cs = <<>> THEN [segs |-> <<>>, first |-> first]
    ELSE LET rest == ConstraintPart(Tail(cs), h, FALSE)
         IN  [segs |-> <<Segment(first, ConstraintSegment(Head(cs), h),
                                 "filter", Head(cs).filter)>> \o rest.segs,
              first |-> FALSE]

\* The segments of an array- or object-valued variable; `first` is not cleared
\* between them.
RECURSIVE ItemSegments(_, _, _, _, _)
ItemSegments(name, kind, items, h, first) ==
    IF items = <<>> THEN <<>>
    ELSE <<Segment(first,
                   EncodeURIComponent(name)
                   \o (IF kind = "array" THEN "[]="
                       ELSE "[" \o EncodeURIComponent(Head(items).k) \o "]=")
                   \o EncodeURIComponent(StringOf(Head(items).v, h)),
                   "variable", name)>>
         \o ItemSegments(name, kind, Tail(items), h, first)

\* A variable that emitted no segment at all.
VariableSegmentsNone(item, h, first) == <<>>

VariableSegments(item, h, first) ==
    IF item.value.t \in {"array", "object"}
    THEN ItemSegments(item.name, item.value.t, h[item.value.s[1]].items, h, first)
    ELSE <<Segment(first,
                   EncodeURIComponent(item.name) \o "="
                   \o EncodeURIComponent(StringOf(item.value, h)),
                   "variable", item.name)>>

RECURSIVE VariablePart(_, _, _)
VariablePart(ap, h, first) ==
    IF ap = <<>> THEN <<>>
    ELSE VariableSegments(Head(ap), h, first) \o VariablePart(Tail(ap), h, FALSE)

QuerySegments(cs, ap, h) ==
    LET c == ConstraintPart(cs, h, TRUE)
    IN  c.segs \o VariablePart(ap, h, c.first)

\* query_string += separator; query_string += segment
RECURSIVE Concat(_)
Concat(segs) ==
    IF segs = <<>> THEN ""
    ELSE Head(segs).sep \o Head(segs).body \o Concat(Tail(segs))

ToQueryString(cs, ap, h) == Concat(QuerySegments(cs, ap, h))

\* JSON-like rendering of a value, to compare what two calls return.
RECURSIVE Show(_, _)
RECURSIVE ShowItems(_, _, _)
ShowItems(items, kind, h) ==
    IF items = <<>> THEN ""
    ELSE (IF kind = "object" THEN EncodeURIComponent(Head(items).k) \o ":" ELSE "")
         \o Show(Head(items).v, h)
         \o (IF Len(items) > 1 THEN "," ELSE "")
         \o ShowItems(Tail(items), kind, h)

Show(v, h) ==
    CASE v.t = "array"  -> "[" \o ShowItems(h[v.s[1]].items, "array", h) \o "]"
      [] v.t = "object" -> "{" \o ShowItems(h[v.s[1]].items, "object", h) \o "}"
      [] v.t = "string" -> "'" \o EncodeURIComponent(v.s) \o "'"
      [] OTHER          -> EncodeURIComponent(v.s)

\* The cells reachable from a value.
RECURSIVE Reach(_, _)
Reach(v, h) ==
    IF ~IsRef(v) THEN {}
    ELSE {v.s[1]} \cup UNION {Reach(h[v.s[1]].items[i].v, h) :
                                i \in 1..Len(h[v.s[1]].items)}

\* clone(value): a deep copy into fresh cells.
RECURSIVE CloneValue(_, _)
RECURSIVE CloneItems(_, _)
CloneItems(items, h) ==
    IF items = <<>> THEN [items |-> <<>>, h |-> h]
    ELSE LET c == CloneValue(Head(items).v, h)
             rest == CloneItems(Tail(items), c.h)
         IN  [items |-> <<Entry(Head(items).k, c.v)>> \o rest.items, h |-> rest.h]

CloneValue(v, h) ==
    IF ~IsRef(v) THEN [v |-> v, h |-> h]
    ELSE LET r == NewRef(h)
             h1 == [h EXCEPT ![r] = [kind |-> v.t, items |-> <<>>]]
             c == CloneItems(h[v.s[1]].items, h1)
         IN  [v |-> [v EXCEPT !.s = <<r>>], h |-> [c.h EXCEPT ![r].items = c.items]]

CanClone(v, h) == Cardinality(FreeIn(h)) >= Cardinality(Reach(v, h))

\* A getVariable that handed out a clone.
GetVariableClones(ap, name, h) ==
    IF CanClone(GetVariable(ap, name), h) THEN CloneValue(GetVariable(ap, name), h)
    ELSE [v |-> GetVariable(ap, name), h |-> h]

\* A getConstraintValue that handed out the stored value.
GetConstraintValueShares(cs, filter, h) ==
    IF HasConstraint(cs, filter)
    THEN [v |-> cs[IndexOf(cs, "filter", filter)].value, h |-> h]
    ELSE [v |-> NULL, h |-> h]

\* What getVariable hands to the caller: the stored value itself.
GetVariableReturns(ap, name, h) == [v |-> GetVariable(ap, name), h |-> h]

\* What getConstraintValue hands to the caller: a clone of an array or object.
GetConstraintValue(cs, filter, h) ==
    IF HasConstraint(cs, filter)
    THEN LET value == cs[IndexOf(cs, "filter", filter)].value
         IN  IF IsRef(value) THEN CloneValue(value, h) ELSE [v |-> value, h |-> h]
    ELSE [v |-> NULL, h |-> h]

\* orderingBy(): a clone of the 'order' variable, or null.
OrderingBy(ap, h) ==
    IF HasVariable(ap, <<"order">>) THEN CloneValue(GetVariable(ap, <<"order">>), h)
    ELSE [v |-> NULL, h |-> h]

\* The values the application passes in. "array", "object" and "empty" stand for
\* a literal written at the call: [1, 'a/b'], {mock: 'mock', list: [1, 'a/b']}
\* and [].
Scalars == {Num(5), Str(<<"mock_value">>)}
ArrayLiteral == [t |-> "literal", s |-> <<"array">>, n |-> 0]
ObjectLiteral == [t |-> "literal", s |-> <<"object">>, n |-> 0]
EmptyLiteral == [t |-> "literal", s |-> <<"empty">>, n |-> 0]
Literals == {ArrayLiteral, ObjectLiteral, EmptyLiteral}
Args == Scalars \cup Literals

ArrayItems == <<Entry(<<>>, Num(1)), Entry(<<>>, Str(<<"a", "/", "b">>))>>

CellsOf(arg) == IF arg = ObjectLiteral THEN 2 ELSE IF arg \in Literals THEN 1 ELSE 0
CanBuild(arg, h) == Cardinality(FreeIn(h)) >= CellsOf(arg)

\* Evaluating an argument: the value passed and the heap holding it.
Build(arg, h) ==
    IF arg = ArrayLiteral
    THEN LET r == NewRef(h)
         IN  [v |-> Arr(r), h |-> [h EXCEPT ![r] = [kind |-> "array", items |-> ArrayItems]]]
    ELSE IF arg = ObjectLiteral
    THEN LET r == NewRef(h)
             h1 == [h EXCEPT ![r] = [kind |-> "object", items |-> <<>>]]
             l == NewRef(h1)
             h2 == [h1 EXCEPT ![l] = [kind |-> "array", items |-> ArrayItems]]
         IN  [v |-> Obj(r),
              h |-> [h2 EXCEPT ![r].items = <<Entry(<<"mock">>, Str(<<"mock">>)),
                                              Entry(<<"list">>, Arr(l))>>]]
    ELSE IF arg = EmptyLiteral
    THEN LET r == NewRef(h)
         IN  [v |-> Arr(r), h |-> [h EXCEPT ![r] = [kind |-> "array", items |-> <<>>]]]
    ELSE [v |-> arg, h |-> h]

Filters == {<<"mock_filter">>, <<"other_filter">>}
GetNames == {<<"limit">>, <<"mock">>}
Limits == {Num(1), Num(-1)}

\* The calls made with a name and a value: every kind of value for one filter
\* and one new variable, and for the others the values that tell them apart.
WhereInputs ==
    ({<<"mock_filter">>} \X Args) \cup ({<<"other_filter">>} \X {Num(5)})
AppendInputs ==
    ({<<"limit">>, <<"page">>} \X {Num(5)}) \cup ({<<"mock">>} \X Args)
UpdateInputs ==
    ({<<"limit">>} \X {ArrayLiteral, EmptyLiteral})
        \cup ({<<"page">>} \X {EmptyLiteral, Str(<<"mock_value">>)})
        \cup ({<<"mock">>} \X {Num(5), ObjectLiteral})
Pages == {Num(5)}

\* `return this`: the builder the method was called on.
THIS == [t |-> "builder", s |-> <<>>, n |-> 0]

BuilderEvent(op, name) ==
    [op |-> op, name |-> name, arg |-> UNDEF, threw |-> "none", result |-> UNDEF,
     via |-> "", ref |-> "", changed |-> FALSE, qs |-> "", shown |-> ""]

CanCallBuilder == bcalls < MaxBuilderCalls

\* The example of the documentation: where('mock_filter', 'mock_value') and then
\* append('page', 5) on a new builder. 3 = the run has left it.
Follows(step, isStep) == IF example = step - 1 /\ isStep THEN step ELSE 3

WhereCall(filter, arg) ==
    /\ CanCallBuilder /\ CanBuild(arg, heap)
    /\ LET b == Build(arg, heap)
       IN  /\ constraints' = Where(constraints, filter, b.v)
           /\ heap' = b.h
    /\ bev' = [BuilderEvent("where", filter) EXCEPT !.arg = Build(arg, heap).v,
                                                   !.result = THIS]
    /\ example' = Follows(1, filter = <<"mock_filter">> /\ arg = Str(<<"mock_value">>))
    /\ bcalls' = bcalls + 1
    /\ UNCHANGED <<appends, held>>

\* A call that changes the variables or raises; `out` is its outcome.
VariableCall(op, name, arg, out, step) ==
    /\ CanCallBuilder /\ CanBuild(arg, heap)
    /\ appends' = out.appends
    /\ heap' = IF out.threw = "none" THEN Build(arg, heap).h ELSE heap
    /\ bev' = [BuilderEvent(op, name) EXCEPT
                  !.threw = out.threw,
                  !.arg = Build(arg, heap).v,
                  !.result = IF out.threw = "none" /\ op # "updateVariable"
                             THEN THIS ELSE UNDEF]
    /\ example' = step
    /\ bcalls' = bcalls + 1
    /\ UNCHANGED <<constraints, held>>

AppendCall(name, arg) ==
    VariableCall("append", name, arg, Append_(appends, name, Build(arg, heap).v),
                 Follows(2, name = <<"page">> /\ arg = Num(5)))

UpdateVariableCall(name, arg) ==
    VariableCall("updateVariable", name, arg,
                 UpdateVariable(appends, name, Build(arg, heap).v), 3)

SetLimitCall(value) ==
    VariableCall("setLimit", <<"limit">>, value, Upsert(appends, <<"limit">>, value), 3)

\* A first() that left the limit as it was.
FirstVariablesKept(ap) == ap

\* The variables of the builder after the setLimit(1) of first().
FirstVariables(ap) == Upsert(ap, <<"limit">>, Num(1)).appends

\* first(success, error): setLimit(1) and then get(), whose request carries the
\* query string of the builder as it then is.
FirstCall ==
    /\ CanCallBuilder
    /\ LET ap == FirstVariables(appends)
       IN  /\ appends' = ap
           /\ bev' = [BuilderEvent("first", <<"limit">>) EXCEPT
                         !.arg = Num(1),
                         !.qs = ToQueryString(constraints, ap, heap)]
    /\ example' = 3
    /\ bcalls' = bcalls + 1
    /\ UNCHANGED <<constraints, heap, held>>

\* orderBy(...orderings): the rest arguments arrive as a new array.
OrderByCall ==
    VariableCall("orderBy", <<"order">>, ArrayLiteral,
                 Upsert(appends, <<"order">>, Build(ArrayLiteral, heap).v), 3)

PageCall(op, ap) ==
    /\ CanCallBuilder
    /\ appends' = ap
    /\ bev' = [BuilderEvent(op, <<"page">>) EXCEPT !.result = THIS]
    /\ example' = 3
    /\ bcalls' = bcalls + 1
    /\ UNCHANGED <<constraints, heap, held>>

SetPageCall(page) == PageCall("setPage", SetPage(appends, page))
IncrementPageCall == PageCall("incrementPage", IncrementPage(appends, heap))
DecrementPageCall == PageCall("decrementPage", DecrementPage(appends, heap))

\* A getter: the caller keeps what it returns when that is an array or object.
Getter(op, name, ret) ==
    /\ CanCallBuilder
    /\ heap' = ret.h
    /\ held' = IF IsRef(ret.v)
               THEN held \cup {[ref |-> ret.v.s[1], via |-> op, name |-> name]}
               ELSE held
    /\ bev' = [BuilderEvent(op, name) EXCEPT !.result = ret.v]
    /\ example' = 3
    /\ bcalls' = bcalls + 1
    /\ UNCHANGED <<constraints, appends>>

GetVariableCall(name) ==
    Getter("getVariable", name, GetVariableReturns(appends, name, heap))

GetConstraintValueCall(filter) ==
    /\ HasConstraint(constraints, filter)
          => CanClone(constraints[IndexOf(constraints, "filter", filter)].value, heap)
    /\ Getter("getConstraintValue", filter, GetConstraintValue(constraints, filter, heap))

OrderingByCall ==
    /\ CanClone(GetVariable(appends, <<"order">>), heap)
    /\ Getter("orderingBy", <<"order">>, OrderingBy(appends, heap))

\* The stored value a getter reads.
StoredValue(via, name) ==
    IF via = "getConstraintValue"
    THEN IF HasConstraint(constraints, name)
         THEN constraints[IndexOf(constraints, "filter", name)].value ELSE NULL
    ELSE GetVariable(appends, name)

\* The application writes 'foo' into the first entry of an array or object it
\* got from a getter, or of one nested in it.
MutateHeld(hd, r) ==
    /\ CanCallBuilder
    /\ r \in Reach([t |-> heap[hd.ref].kind, s |-> <<hd.ref>>, n |-> 0], heap)
    /\ heap[r].items # <<>>
    /\ heap' = [heap EXCEPT ![r].items[1].v = Str(<<"foo">>)]
    /\ bev' = [BuilderEvent("mutate", hd.name) EXCEPT
                  !.via = hd.via, !.ref = r,
                  !.changed = (heap[r].items[1].v # Str(<<"foo">>)),
                  !.qs = ToQueryString(constraints, appends, heap),
                  !.shown = Show(StoredValue(hd.via, hd.name), heap)]
    /\ example' = 3
    /\ bcalls' = bcalls + 1
    /\ UNCHANGED <<constraints, appends, held>>

BuilderDefault ==
    /\ constraints = <<>>
    /\ appends = DefaultAppends
    /\ heap = [r \in Refs |-> FreeCell]
    /\ held = {}
    /\ bev = BuilderEvent("construct", <<>>)
    /\ bcalls = 0
    /\ example = 0

----------------------------------------------------------------------------
\* The default driver (src/src/HttpDrivers/JqueryHttpDriver.js).

\* A statusCode map that reported every failure as a 500.
StatusCodeHandlerFlat(status) ==
    CASE status \in {500, 422, 403} -> [method |-> "error", code |-> 500]
      [] status = 200 -> [method |-> "success", code |-> 200]
      [] OTHER        -> [method |-> "none", code |-> 0]

\* The statusCode map handed to jQuery.ajax: which method of the request a
\* response status calls, and the code it passes along.
StatusCodeHandler(status) ==
    CASE status = 500 -> [method |-> "error", code |-> 500]
      [] status = 422 -> [method |-> "error", code |-> 422]
      [] status = 403 -> [method |-> "error", code |-> 403]
      [] status = 200 -> [method |-> "success", code |-> 200]
      [] OTHER        -> [method |-> "none", code |-> 0]

Statuses == {200, 422, 500, 403, 404}

\* A request on the wire: its response status (0 while there is none), how
\* often each handler ran and what the last handler call was given.
\* For a request of first(): its method and the query string of its URL, the
\* records of the payload, how often the caller's success callback ran and
\* what it was given.
NewWire ==
    [status |-> 0, success |-> 0, failure |-> 0, response |-> 0, code |-> 0,
     method |-> "", url |-> "", data |-> <<>>, user |-> 0, first |-> UNDEF]

\* HttpRequest.success(response, code) and HttpRequest.error(response, code):
\* run the handler registered with onSuccess / onFailure.
RequestSuccess(w, response, code) ==
    [w EXCEPT !.success = @ + 1, !.response = response, !.code = code]
RequestError(w, response, code) ==
    [w EXCEPT !.failure = @ + 1, !.response = response, !.code = code]

\* jQuery answers an ajax call once and runs the statusCode entry of the status.
Deliver(w, status) ==
    LET h == StatusCodeHandler(status)
        answered == [w EXCEPT !.status = status]
    IN  CASE h.method = "success" -> RequestSuccess(answered, status, h.code)
          [] h.method = "error"   -> RequestError(answered, status, h.code)
          [] OTHER                -> answered

\* What execute() is called with: an HttpRequest with the header pairs that
\* setHeader gave it, in order, or something that is no HttpRequest.
ACCEPT_JSON == <<"Accept", "application/json">>
HeaderLists ==
    {<<>>, <<ACCEPT_JSON>>, <<ACCEPT_JSON, ACCEPT_JSON>>,
     <<ACCEPT_JSON, <<"Accept", "text/html">>>>, <<ACCEPT_JSON, <<"X-Token", "t">>>>}
ExecuteArgs ==
    [kind : {"HttpRequest"}, headers : HeaderLists, method : {"POST"}, url : {""}]
        \cup [kind : {"null", "object"}, headers : {<<>>}, method : {""}, url : {""}]

\* request instanceof HttpRequest
IsHttpRequest(request) == request.kind = "HttpRequest"

\* An execute of the interface that let everything pass.
HttpDriverExecuteAccepts(request) == "none"

\* HttpDriver.execute(request): what it throws.
HttpDriverExecute(request) ==
    IF IsHttpRequest(request) THEN "none" ELSE "InvalidParameterException"

\* _parseHeaders(headers): an object with one property per header name, in the
\* order the names first came, each with the value that was written last.
RECURSIVE ParseHeaders(_)
ParseHeaders(headers) ==
    IF headers = <<>> THEN <<>>
    ELSE LET parsed == ParseHeaders(SubSeq(headers, 1, Len(headers) - 1))
             pair == headers[Len(headers)]
         IN  IF \E i \in 1..Len(parsed) : parsed[i][1] = pair[1]
             THEN [i \in 1..Len(parsed) |->
                      IF parsed[i][1] = pair[1] THEN pair ELSE parsed[i]]
             ELSE Append(parsed, pair)

\* A driver step: the call or answer, what execute() was given, the pairs its
\* request held and the headers handed to jQuery.ajax.
DriverEvent(op, i, status) ==
    [op |-> op, i |-> i, status |-> status, kind |-> "", set |-> <<>>, headers |-> <<>>]

\* JqueryHttpDriver.execute(request): super.execute(request), then jQuery.ajax.
Execute(request) ==
    /\ Len(wire) < MaxWire
    /\ HttpDriverExecute(request) = "none"
    /\ wire' = Append(wire, [NewWire EXCEPT !.method = request.method,
                                            !.url = request.url])
    /\ dev' = [DriverEvent("execute", Len(wire) + 1, 0) EXCEPT
                  !.kind = request.kind,
                  !.set = request.headers,
                  !.headers = ParseHeaders(request.headers)]

\* execute with something that is not an HttpRequest: super.execute throws.
ExecuteInvalid(request) ==
    /\ HttpDriverExecute(request) # "none"
    /\ dev' = [DriverEvent(HttpDriverExecute(request), 0, 0) EXCEPT !.kind = request.kind]
    /\ UNCHANGED wire

Answer(i, status) ==
    /\ i \in 1..Len(wire)
    /\ wire[i].status = 0
    /\ wire' = [wire EXCEPT ![i] = Deliver(@, status)]
    /\ dev' = DriverEvent("answer", i, status)

DriverDefault ==
    /\ wire = <<>>
    /\ dev = DriverEvent("none", 0, 0)

----------------------------------------------------------------------------
\* Builder.first and Builder.get through the driver (src/unnamed/part_001,
\* lines 241-282). The URL of a request is kept as its query string.

\* The request get() builds: _newRequest(), then method and URL.
GetRequest(cs, ap, h) ==
    [kind |-> "HttpRequest", headers |-> <<ACCEPT_JSON, ACCEPT_JSON>>,
     method |-> "GET", url |-> ToQueryString(cs, ap, h)]

\* first(success, error): setLimit(1), then get() hands its request to the driver.
First ==
    /\ FirstCall
    /\ Execute(GetRequest(constraints, FirstVariables(appends), heap))

\* The `data` of the payloads a read is answered with.
Record(i) == [EmptyMap EXCEPT !["id"] = Num(i)]
FirstPayloads == {<<>>, <<Record(1)>>, <<Record(2), Record(1)>>}
\* The answers to a read: a 200 with a payload, or another status without one.
FirstResponses == ({200} \X FirstPayloads) \cup ((Statuses \ {200}) \X {<<>>})

\* encapsulateData(items): every record wrapped as a model.
EncapsulateData(items) == [i \in 1..Len(items) |-> Encapsulate(items[i])]

\* results.first() of the collection: its first item, undefined when it has none.
CollectionFirst(items) == IF items = <<>> THEN UNDEF ELSE items[1]

\* The response to the i-th request of first() arrives with a payload. On 200 the
\* success handler of get() wraps the records and collects them, and the
\* callback of first() hands results.first() to the caller's success callback.
FirstAnswer(i, status, data) ==
    /\ i \in 1..Len(wire)
    /\ wire[i].status = 0
    /\ LET w == [Deliver(wire[i], status) EXCEPT !.data = data]
       IN  wire' = [wire EXCEPT ![i] =
                       IF w.success > wire[i].success
                       THEN [w EXCEPT !.user = @ + 1,
                                      !.first = CollectionFirst(EncapsulateData(data))]
                       ELSE w]
    /\ dev' = DriverEvent("answer", i, status)

----------------------------------------------------------------------------
\* ModelCollection pagination (src/unnamed/part_005, lines 1-60).

PageEvent(op) == [op |-> op, pre |-> 0, before |-> 0, clean |-> FALSE, code |-> 0]

CanCallPage == pcalls < MaxPageCalls

\* A loadNextPage that went on whatever the collection held.
CanPaginateAlways == TRUE

\* The test of loadNextPage: a query is set and its limit is not -1.
CanPaginate == coll.query /\ GetLimit(appends) # Num(-1)

PageLimits == {Num(15), Num(-1)}

SetQuery ==
    /\ CanCallPage
    /\ ~coll.query
    /\ coll' = [coll EXCEPT !.query = TRUE]
    /\ pev' = PageEvent("setQuery")
    /\ pcalls' = pcalls + 1
    /\ UNCHANGED <<loads, appends>>

\* setLimit on the attached builder.
PageSetLimit(l) ==
    /\ CanCallPage
    /\ coll.query
    /\ appends' = Upsert(appends, <<"limit">>, l).appends
    /\ pev' = PageEvent("setLimit")
    /\ pcalls' = pcalls + 1
    /\ UNCHANGED <<coll, loads>>

Unclean(ls) == [i \in 1..Len(ls) |-> [ls[i] EXCEPT !.clean = FALSE]]

LoadNextPage ==
    /\ CanCallPage
    /\ CanPaginate
    /\ Len(loads) < MaxLoads
    /\ appends' = IncrementPage(appends, heap)
    /\ loads' = Append(Unclean(loads), [pre |-> CurrentPage(appends).n, clean |-> TRUE])
    /\ pev' = [PageEvent("load") EXCEPT !.pre = CurrentPage(appends).n]
    /\ pcalls' = pcalls + 1
    /\ coll' = IF loads = <<>>
               THEN [coll EXCEPT !.start = CurrentPage(appends).n, !.calls = 1,
                                 !.won = 0, !.stray = 0]
               ELSE [coll EXCEPT !.calls = @ + 1]

LoadThrows ==
    /\ CanCallPage
    /\ ~CanPaginate
    /\ pev' = PageEvent("MissingQueryBuilderException")
    /\ pcalls' = pcalls + 1
    /\ UNCHANGED <<coll, loads, appends>>

\* A failure callback that left the page counter alone.
LoadFailureKeepsPage(ap) == ap

\* The failure callback of loadNextPage.
LoadFailure(ap) == DecrementPage(ap, heap)

\* The response to the i-th outstanding load arrives.
LoadAnswer(i, status) ==
    /\ i \in 1..Len(loads)
    /\ LET h == StatusCodeHandler(status)
           others == Without(loads, i)
       IN  CASE h.method = "error" ->
                  /\ appends' = LoadFailure(appends)
                  /\ loads' = Unclean(others)
                  /\ pev' = [op |-> "loadFailed", pre |-> loads[i].pre,
                             before |-> CurrentPage(appends).n,
                             clean |-> loads[i].clean, code |-> h.code]
                  /\ UNCHANGED coll
             [] h.method = "success" ->
                  /\ loads' = others
                  /\ pev' = [PageEvent("loaded") EXCEPT !.pre = loads[i].pre]
                  /\ coll' = [coll EXCEPT !.won = @ + 1]
                  /\ UNCHANGED appends
             [] OTHER ->
                  /\ loads' = others
                  /\ pev' = [PageEvent("unanswered") EXCEPT !.pre = loads[i].pre]
                  /\ coll' = [coll EXCEPT !.stray = @ + 1]
                  /\ UNCHANGED appends
    /\ UNCHANGED pcalls

PageDefault ==
    /\ coll = [query |-> FALSE, start |-> 0, calls |-> 0, won |-> 0, stray |-> 0]
    /\ loads = <<>>
    /\ pev = PageEvent("construct")
    /\ pcalls = 0

----------------------------------------------------------------------------
\* Model.clone (src/src/Model.js, lines 476-482). An instance holds its
\* `_.attributes` and `_.original` as objects of their own, and an attribute may
\* hold a plain object; `objs` gives every such object its content, so that two
\* instances can be told to share one.

Sides == {"source", "clone"}
Other(on) == IF on = "source" THEN "clone" ELSE "source"

\* The object a clone() allocates for the copy of a nested value.
CellOf(part, k) == part \o "." \o k
Cells == {"s.attributes", "s.original", "s.name", "c.attributes", "c.original"}
            \cup {CellOf(part, k) : part \in {"c.attr", "c.orig"}, k \in Keys}

\* The instance as the operations of the Model see it.
ViewIn(i, o) ==
    [attributes |-> o[i.at], original |-> o[i.orig], dyn |-> i.dyn,
     accE |-> i.accE, accN |-> i.accN, syncing |-> i.syncing, exists |-> i.exists]
View(on) == ViewIn(twins[on], objs)

\* An instance whose `_.attributes` and `_.original` are the objects at, orig.
Pointers(m, at, orig) ==
    [at |-> at, orig |-> orig, dyn |-> m.dyn, accE |-> m.accE, accN |-> m.accN,
     syncing |-> m.syncing, exists |-> m.exists, made |-> TRUE]

NotMade == [Pointers(Construct(EmptyMap), "c.attributes", "c.original") EXCEPT !.made = FALSE]

\* clone(map) of the `clone` package: a new object with the same keys, every
\* nested object copied into a new object of its own.
DeepClone(map, part, o) ==
    [value |-> [k \in Keys |-> IF map[k].t = "object" THEN Obj(CellOf(part, k)) ELSE map[k]],
     objs |-> [c \in Cells |->
                 IF \E k \in Keys : map[k].t = "object" /\ c = CellOf(part, k)
                 THEN o[map[CHOOSE k \in Keys : c = CellOf(part, k)].s[1]]
                 ELSE o[c]]]

\* clone(): new this.constructor(clone(this.getAttributes())), then the copy
\* of _.original and the two flags.
Clone(i, o) ==
    LET ga == DeepClone(GetAttributes(ViewIn(i, o)), "c.attr", o)
        m0 == Construct(ga.value)
        og == DeepClone(o[i.orig], "c.orig", ga.objs)
        m1 == [m0 EXCEPT !.syncing = i.syncing, !.exists = i.exists]
    IN  [twin |-> Pointers(m1, "c.attributes", "c.original"),
         objs |-> [og.objs EXCEPT !["c.attributes"] = m0.attributes,
                                  !["c.original"] = og.value]]

CloneEvent(op, on) == [op |-> op, on |-> on, threw |-> "none"]
CanCallClone == ccalls < MaxCloneCalls

\* The instance `on` becomes m: its own properties and flags, and the content of
\* the two objects it holds.
Put(on, m) ==
    /\ twins' = [twins EXCEPT ![on] = Pointers(m, twins[on].at, twins[on].orig)]
    /\ objs' = [objs EXCEPT ![twins[on].at] = m.attributes,
                            ![twins[on].orig] = m.original]

CloneCall ==
    /\ CanCallClone /\ ~twins["clone"].made
    /\ ExistsCallable(View("source"))
    /\ LET c == Clone(twins["source"], objs)
       IN  /\ twins' = [twins EXCEPT !["clone"] = c.twin]
           /\ objs' = c.objs
    /\ cev' = CloneEvent("clone", "source")
    /\ ccalls' = ccalls + 1

\* clone() on an instance whose `exists` is shadowed: this.exists() in line 480
\* throws a TypeError and the new instance is never returned.
CloneThrows ==
    /\ CanCallClone /\ ~twins["clone"].made
    /\ ~ExistsCallable(View("source"))
    /\ cev' = [CloneEvent("clone", "source") EXCEPT !.threw = "TypeError"]
    /\ ccalls' = ccalls + 1
    /\ UNCHANGED <<twins, objs>>

WriteOn(on, k, v) ==
    /\ CanCallClone /\ twins[on].made
    /\ Put(on, PropSet(View(on), k, v))
    /\ cev' = CloneEvent("set", on)
    /\ ccalls' = ccalls + 1

\* The application writes 'foo' into the object an attribute holds.
NestedWriteOn(on, k) ==
    /\ CanCallClone /\ twins[on].made
    /\ PropGet(View(on), k).t = "object"
    /\ objs' = [objs EXCEPT ![PropGet(View(on), k).s[1]]["id"] = Str(<<"foo">>)]
    /\ cev' = CloneEvent("nested", on)
    /\ ccalls' = ccalls + 1
    /\ UNCHANGED twins

HydrateOn(on, a) ==
    /\ CanCallClone /\ twins[on].made
    /\ \E h \in Hydrate(View(on), a) :
          /\ Put(on, h.m)
          /\ cev' = [CloneEvent("hydrate", on) EXCEPT
                        !.threw = IF h.threw THEN "TypeError" ELSE "none"]
    /\ ccalls' = ccalls + 1

ResetOn(on) ==
    /\ CanCallClone /\ twins[on].made
    /\ Put(on, Reset(View(on)))
    /\ cev' = CloneEvent("reset", on)
    /\ ccalls' = ccalls + 1

\* The records an instance is constructed from before it is cloned.
CloneStartMaps ==
    {a \in [Keys -> {Num(5), Obj("s.name"), UNDEF}] :
        a["exists"] = UNDEF /\ a["id"] # Obj("s.name")}

\* The source is a new instance or one encapsulateData wrapped; it may be
\* syncing (a save is outstanding).
CloneInit ==
    /\ \E a \in CloneStartMaps, wrapped \in BOOLEAN, syncing \in BOOLEAN :
          twins = [on \in Sides |->
                     IF on = "clone" THEN NotMade
                     ELSE Pointers([(IF wrapped THEN Encapsulate(a) ELSE Construct(a))
                                       EXCEPT !.syncing = syncing],
                                   "s.attributes", "s.original")]
    /\ objs = [c \in Cells |-> IF c = "s.name" THEN [EmptyMap EXCEPT !["id"] = Num(5)]
                                ELSE EmptyMap]
    /\ cev = CloneEvent("construct", "source")
    /\ ccalls = 0

CloneDefault ==
    /\ twins = [on \in Sides |->
                  IF on = "clone" THEN NotMade
                  ELSE Pointers(Construct(EmptyMap), "s.attributes", "s.original")]
    /\ objs = [c \in Cells |-> EmptyMap]
    /\ cev = CloneEvent("construct", "source")
    /\ ccalls = 0

----------------------------------------------------------------------------
\* The specifications: one per component, the other components at rest.

ModelDefault ==
    /\ model = Construct(EmptyMap)
    /\ reqs = <<>>
    /\ ev = NoEvent("construct")
    /\ calls = 0

Init == ModelInit /\ BuilderDefault /\ PageDefault /\ DriverDefault /\ CloneDefault

ModelOnly == UNCHANGED <<bvars, pvars, dvars, cvars>>

Next ==
    \/ ModelOnly /\ \E k \in DataKeys, v \in EditVals : SetAttr(k, v)
    \/ ModelOnly /\ \E a \in HydrateMaps : HydrateCall(a)
    \/ ModelOnly /\ ResetCall
    \/ ModelOnly /\ SaveThrows
    \/ ModelOnly /\ SaveCall
    \/ ModelOnly /\ DeleteThrows
    \/ ModelOnly /\ DeleteNoRequest
    \/ ModelOnly /\ DeleteCall
    \/ ModelOnly /\ \E i \in 1..MaxReqs : RespondSuccess(i)
    \/ ModelOnly /\ \E i \in 1..MaxReqs, code \in FailureCodes : RespondFailure(i, code)

Spec == Init /\ [][Next]_vars

\* Fresh instances over the whole domain of constructor values.
NewModel(a) ==
    /\ CanCall /\ calls' = calls + 1
    /\ model' = Construct(a)
    /\ ev' = NoEvent("construct")
    /\ UNCHANGED reqs

FreshNext ==
    \/ ModelOnly /\ \E a \in CtorMaps : NewModel(a)
    \/ ModelOnly /\ \E k \in DataKeys, v \in EditVals : SetAttr(k, v)
    \/ ModelOnly /\ ResetCall

SpecFresh == Init /\ [][FreshNext]_vars

BuilderInit ==
    ModelDefault /\ BuilderDefault /\ PageDefault /\ DriverDefault /\ CloneDefault

BuilderOnly == UNCHANGED <<mvars, pvars, dvars, cvars>>
FirstOnly == UNCHANGED <<mvars, pvars, cvars>>

BuilderNext ==
    \/ BuilderOnly /\ \E in \in WhereInputs : WhereCall(in[1], in[2])
    \/ BuilderOnly /\ \E in \in AppendInputs : AppendCall(in[1], in[2])
    \/ BuilderOnly /\ \E in \in UpdateInputs : UpdateVariableCall(in[1], in[2])
    \/ BuilderOnly /\ \E l \in Limits : SetLimitCall(l)
    \/ FirstOnly /\ First
    \/ BuilderOnly /\ OrderByCall
    \/ BuilderOnly /\ \E p \in Pages : SetPageCall(p)
    \/ BuilderOnly /\ IncrementPageCall
    \/ BuilderOnly /\ DecrementPageCall
    \/ BuilderOnly /\ \E n \in GetNames : GetVariableCall(n)
    \/ BuilderOnly /\ \E f \in Filters : GetConstraintValueCall(f)
    \/ BuilderOnly /\ OrderingByCall
    \/ BuilderOnly /\ \E hd \in held, r \in Refs : MutateHeld(hd, r)

SpecBuilder == BuilderInit /\ [][BuilderNext]_vars

PageOnly ==
    UNCHANGED <<mvars, dvars, cvars, constraints, heap, held, bev, bcalls, example>>

PageNext ==
    \/ PageOnly /\ SetQuery
    \/ PageOnly /\ \E l \in PageLimits : PageSetLimit(l)
    \/ PageOnly /\ LoadNextPage
    \/ PageOnly /\ LoadThrows
    \/ PageOnly /\ \E i \in 1..MaxLoads, status \in Statuses : LoadAnswer(i, status)

SpecPage == BuilderInit /\ [][PageNext]_vars

DriverOnly == UNCHANGED <<mvars, bvars, pvars, cvars>>

DriverNext ==
    \/ DriverOnly /\ \E request \in ExecuteArgs : Execute(request)
    \/ DriverOnly /\ \E request \in ExecuteArgs : ExecuteInvalid(request)
    \/ DriverOnly /\ \E i \in 1..MaxWire, status \in Statuses : Answer(i, status)

SpecDriver == BuilderInit /\ [][DriverNext]_vars

\* The instance is a model encapsulateData wrapped from a record of a read
\* payload; the application then uses it as any other.
WrappedInit ==
    /\ \E rec \in StartMaps : rec[primary_key] # UNDEF /\ model = Encapsulate(rec)
    /\ reqs = <<>>
    /\ ev = NoEvent("construct")
    /\ calls = 0
    /\ BuilderDefault /\ PageDefault /\ DriverDefault /\ CloneDefault

SpecWrapped == WrappedInit /\ [][Next]_vars

\* A new or a wrapped model that is filled and hydrated with mappings that hold
\* the key '_' at some place among their keys.
ReservedInit ==
    /\ \E a \in StartMaps, wrapped \in BOOLEAN :
          model = IF wrapped THEN Encapsulate(a) ELSE Construct(a)
    /\ reqs = <<>>
    /\ ev = NoEvent("construct")
    /\ calls = 0
    /\ BuilderDefault /\ PageDefault /\ DriverDefault /\ CloneDefault

ReservedNext ==
    \/ ModelOnly /\ \E a \in HydrateMaps : \E before \in SUBSET KeysOf(a) :
                       FillReservedCall(a, before)
    \/ ModelOnly /\ \E a \in HydrateMaps : \E before \in SUBSET KeysOf(a) :
                       HydrateReservedCall(a, before)
    \/ ModelOnly /\ \E a \in HydrateMaps : HydrateCall(a)
    \/ ModelOnly /\ \E k \in DataKeys, v \in EditVals : SetAttr(k, v)

SpecReserved == ReservedInit /\ [][ReservedNext]_vars

\* first() on a builder, after calls that set its limit and constraints, and
\* the answers to its requests.
FirstLimits == {Num(-1), ArrayLiteral}
FirstNext ==
    \/ BuilderOnly /\ \E in \in WhereInputs : WhereCall(in[1], in[2])
    \/ BuilderOnly /\ \E l \in FirstLimits : SetLimitCall(l)
    \/ FirstOnly /\ First
    \/ DriverOnly /\ \E i \in 1..MaxWire, r \in FirstResponses : FirstAnswer(i, r[1], r[2])

SpecFirst == BuilderInit /\ [][FirstNext]_vars

CloneOnly == UNCHANGED <<mvars, bvars, pvars, dvars>>

CloneNext ==
    \/ CloneOnly /\ CloneCall
    \/ CloneOnly /\ CloneThrows
    \/ CloneOnly /\ \E on \in Sides, k \in DataKeys, v \in EditVals : WriteOn(on, k, v)
    \/ CloneOnly /\ \E on \in Sides, k \in DataKeys : NestedWriteOn(on, k)
    \/ CloneOnly /\ \E on \in Sides, a \in HydrateMaps : HydrateOn(on, a)
    \/ CloneOnly /\ \E on \in Sides : ResetOn(on)

CloneStart ==
    ModelDefault /\ BuilderDefault /\ PageDefault /\ DriverDefault /\ CloneInit

SpecClone == CloneStart /\ [][CloneNext]_vars

----------------------------------------------------------------------------
\* Claims about the Model instance.

\* A save() or deleteModel() call that has finished.
Finished == ev.op \in {"saved", "saveFailed", "deleted", "deleteFailed", "deleteNoRequest"}

\* C1: after a save() that succeeded with the server echoing the saved record
\* (nothing else having touched the instance meanwhile), dirty() is empty.
C1_SavedModelIsClean ==
    (ev.op = "saved" /\ ev.echoed /\ ev.quiet) => DirtyKeys(model) = {}

C3_SyncingWhileOutstanding == reqs # <<>> => model.syncing

\* C3, amended: while a request is outstanding that no other request of the
\* instance has overlapped, isSyncing().
C3_SyncingWhileAlone ==
    \A i \in Outstanding : ~reqs[i].overlap => model.syncing

\* One request outstanding, never overlapped, with other operations run on the
\* instance since it was made.
C3_AloneWitness ==
    /\ Len(reqs) = 1 /\ ~reqs[1].overlap /\ ~reqs[1].quiet
    /\ ev.op \in {"set", "reset"}

\* C4: a call has finished and nothing is outstanding: isSyncing() is false.
C4_IdleIsNotSyncing == (Finished /\ reqs = <<>>) => ~model.syncing

\* C7: dirty() of a freshly constructed model is the mapping supplied.
C7_FreshModelIsAllDirty == ev.op = "construct" => Dirty(model) = model.dyn

----------------------------------------------------------------------------
\* Claims about the Builder.

MutatedVia(via) == bev.op = "mutate" /\ bev.via = via

C9_GetConstraintValueIsDeepCopy ==
    MutatedVia("getConstraintValue") =>
        /\ Show(StoredValue("getConstraintValue", bev.name), heap) = bev.shown
        /\ ToQueryString(constraints, appends, heap) = bev.qs

\* The application changed an array it got from getConstraintValue, or one
\* nested in an object it got, while the constraint still holds an array or
\* object.
C9_MutatedCopyWitness ==
    /\ MutatedVia("getConstraintValue") /\ bev.changed
    /\ IsRef(StoredValue("getConstraintValue", bev.name))
    /\ heap[bev.ref].kind = "array"

ExampleQueryString == "?filters[mock_filter][]=mock_value&page=5"
SeededQueryString == "?filters[mock_filter][]=mock_value&limit=15&page=1"

\* C10: on a new builder where('mock_filter', 'mock_value') and then
\* append('page', 5) succeeds, and toQueryString() is
\* "?filters[mock_filter][]=mock_value&page=5".
C10_ExampleSucceeds ==
    example = 2 =>
        /\ bev.threw = "none"
        /\ ToQueryString(constraints, appends, heap) = ExampleQueryString

\* C10, amended: on a new builder where('mock_filter', 'mock_value') and then
\* append('page', 5) raises DuplicateVariableException, the page variable being
\* there already, and toQueryString() is
\* "?filters[mock_filter][]=mock_value&limit=15&page=1".
C10_ExampleRaisesDuplicate ==
    example = 2 =>
        /\ bev.threw = "DuplicateVariableException"
        /\ ToQueryString(constraints, appends, heap) = SeededQueryString

\* The two calls of the example have been made.
C10_ExampleWitness == example = 2 /\ bev.op = "append" /\ bev.name = <<"page">>

----------------------------------------------------------------------------
\* Claims about pagination.

\* C5: right after the failure callback of a loadNextPage() the page is the one
\* from before that call incremented it.
C5_FailedLoadRestoresPage ==
    pev.op = "loadFailed" => CurrentPage(appends).n = pev.pre

\* C5, amended: the failure callback of a loadNextPage() takes one off the page
\* counter; the page is the one from before the call incremented it when no
\* other loadNextPage() was called and none failed between the call and its
\* failure.
C5_FailedLoadDecrements ==
    pev.op = "loadFailed" =>
        /\ CurrentPage(appends).n = pev.before - 1
        /\ pev.clean => CurrentPage(appends).n = pev.pre

\* A load failed with an earlier load of the collection still outstanding, and
\* the page is back at the value from before the failed call.
C5_FailedAloneWitness ==
    /\ pev.op = "loadFailed" /\ pev.clean /\ loads # <<>>
    /\ CurrentPage(appends).n = pev.pre

----------------------------------------------------------------------------
\* Claims about the default driver.

Handled == {200, 422, 500, 403}

\* C6: for a response with status 200, 422, 500 or 403 exactly one handler of
\* the request has run, once: the success handler for 200, the failure handler
\* for the other three, given the response and its status as the code.
C6_OneHandlerOnce ==
    \A i \in 1..Len(wire) :
        wire[i].status \in Handled =>
            /\ wire[i].success + wire[i].failure = 1
            /\ wire[i].success = 1 <=> wire[i].status = 200
            /\ wire[i].response = wire[i].status
            /\ wire[i].code = wire[i].status

\* One request answered 200 and another 422, with a third still unanswered.
C6_AnsweredWitness ==
    /\ \E i \in 1..Len(wire) : wire[i].status = 200 /\ wire[i].success = 1
    /\ \E i \in 1..Len(wire) : wire[i].status = 422 /\ wire[i].failure = 1
    /\ \E i \in 1..Len(wire) : wire[i].status = 0

\* C11: a query string that is not empty begins with '?' and every later
\* segment is preceded by '&'.
C11_SeparatorsWellFormed ==
    LET segs == QuerySegments(constraints, appends, heap)
    IN  segs # <<>> =>
            /\ segs[1].sep = "?"
            /\ \A i \in 2..Len(segs) : segs[i].sep = "&"

AllEmpty(ap, h) ==
    \A i \in 1..Len(ap) : IsRef(ap[i].value) /\ h[ap[i].value.s[1]].items = <<>>

\* C12: toQueryString() is empty only if the builder holds no constraint and no
\* variable.
C12_EmptyOnlyWhenNothingHeld ==
    ToQueryString(constraints, appends, heap) = "" =>
        constraints = <<>> /\ appends = <<>>

\* C12, amended: toQueryString() is empty exactly when the builder holds no
\* constraint and every variable it holds is an empty array or an object without
\* keys.
C12_EmptyOnlyWithoutSegments ==
    ToQueryString(constraints, appends, heap) = "" <=>
        constraints = <<>> /\ AllEmpty(appends, heap)

\* Both seeded variables were given an empty array: the string is empty.
C12_EmptyWitness ==
    /\ ToQueryString(constraints, appends, heap) = ""
    /\ Len(appends) = 2 /\ bev.op = "updateVariable"

FilterNames(cs) == [i \in 1..Len(cs) |-> cs[i].filter]
VariableNames(ap) == [i \in 1..Len(ap) |-> ap[i].name]

\* The place of a segment's filter or variable in the builder.
Rank(seg) ==
    IF seg.of = "filter" THEN IndexOf(constraints, "filter", seg.key)
    ELSE Len(constraints) + IndexOf(appends, "name", seg.key)

\* How many segments a constraint or variable of that rank has.
SegmentsOf(rank) ==
    Cardinality({i \in 1..Len(QuerySegments(constraints, appends, heap)) :
                    Rank(QuerySegments(constraints, appends, heap)[i]) = rank})

\* Segments come in the order of the constraints, then of the variables; each
\* constraint and each variable that is no array or object has one segment.
SegmentsInOrder ==
    LET segs == QuerySegments(constraints, appends, heap)
    IN  /\ \A i, j \in 1..Len(segs) : i < j => Rank(segs[i]) <= Rank(segs[j])
        /\ \A i \in 1..Len(segs) : Rank(segs[i]) >= 1
        /\ \A i \in 1..Len(constraints) : SegmentsOf(i) = 1
        /\ \A i \in 1..Len(appends) :
              SegmentsOf(Len(constraints) + i) =
                  IF IsRef(appends[i].value)
                  THEN Len(heap[appends[i].value.s[1]].items) ELSE 1

\* A call keeps every filter and every variable at its place, adds a new one at
\* the end, and gives a new value to none but the one it names.
PlacesKept ==
    /\ \E tail \in {<<>>, <<bev'.name>>} :
          FilterNames(constraints') = FilterNames(constraints) \o tail
    /\ \E tail \in {<<>>, <<bev'.name>>} :
          VariableNames(appends') = VariableNames(appends) \o tail
    /\ \A i \in 1..Len(constraints) :
          constraints'[i].value # constraints[i].value =>
              bev'.op = "where" /\ bev'.name = constraints[i].filter
    /\ \A i \in 1..Len(appends) :
          appends'[i].value # appends[i].value =>
              /\ bev'.op \in {"updateVariable", "setLimit", "first", "setPage",
                              "incrementPage", "decrementPage", "orderBy"}
              /\ bev'.name = appends[i].name

\* C13: constraint segments come before variable segments, each kind in the
\* order the filters were first added and the variables appended; where() on an
\* existing filter and updateVariable(), setLimit(), setPage(), orderBy() on an
\* existing variable change that one's value and no position.
C13_OrderPreserved == [](SegmentsInOrder) /\ [][PlacesKept]_bvars

\* where() was called again on the first of two filters.
C13_SecondWhereWitness ==
    /\ bev.op = "where" /\ Len(constraints) = 2
    /\ bev.name = constraints[1].filter
    /\ Len(appends) = 2

\* The builder's collections and the objects they refer to are as they were.
BuilderKept == UNCHANGED <<constraints, appends, heap>>

\* C14: append() with a name already among the variables, the pre-seeded limit
\* and page included, raises DuplicateVariableException and leaves the
\* variables and the constraints exactly as they were.
C14_DuplicateAppendRejected ==
    [][(bev'.op = "append" /\ HasVariable(appends, bev'.name))
          => (bev'.threw = "DuplicateVariableException" /\ BuilderKept)]_bvars

C14_DuplicateWitness ==
    /\ bev.op = "append" /\ bev.threw = "DuplicateVariableException"
    /\ bev.name = <<"limit">> /\ constraints # <<>>

\* Every variable but `name` is where it was with the value it had.
OthersKept(name) ==
    /\ VariableNames(appends') = VariableNames(appends)
    /\ \A i \in 1..Len(appends) :
           appends[i].name # name => appends'[i] = appends[i]

\* C15: updateVariable() with a name never appended raises
\* UnknownVariableException and leaves the variables and the constraints as
\* they were; with an existing name it replaces the value of that variable
\* only, and getVariable(name) then returns the new value.
C15_UpdateVariableReplacesOrRaises ==
    [][bev'.op = "updateVariable"
          => IF HasVariable(appends, bev'.name)
             THEN /\ bev'.threw = "none"
                  /\ UNCHANGED constraints
                  /\ OthersKept(bev'.name)
                  /\ GetVariableReturns(appends', bev'.name, heap').v = bev'.arg
             ELSE /\ bev'.threw = "UnknownVariableException"
                  /\ BuilderKept]_bvars

C15_UnknownWitness ==
    /\ bev.op = "updateVariable" /\ bev.threw = "UnknownVariableException"
    /\ bev.name = <<"mock">> /\ constraints # <<>>

\* C16: whatever append, updateVariable, setLimit, setPage, incrementPage,
\* decrementPage, orderBy and first calls were made, raising ones included, no
\* two appended variables have the same name.
C16_VariableNamesDistinct ==
    \A i, j \in 1..Len(appends) : appends[i].name = appends[j].name => i = j

\* first() on a builder that holds two variables more than the seeded ones.
C16_FirstWitness == bev.op = "first" /\ Len(appends) = 4

\* What getConstraintValue(filter) returns is the value given: the value itself,
\* or for an array or object a copy with the same content.
ReturnsGiven(filter, given) ==
    LET stored == constraints'[IndexOf(constraints', "filter", filter)].value
    IN  CanClone(stored, heap')
           => LET ret == GetConstraintValue(constraints', filter, heap')
              IN  /\ Show(ret.v, ret.h) = Show(given, heap')
                  /\ ~IsRef(given) => ret.v = given

\* where(f, v) leaves f with one constraint whose value is v, adds no other
\* filter, and returns the builder; no other call touches the constraints.
WhereSets ==
    IF bev'.op = "where"
    THEN /\ HasConstraint(constraints', bev'.name)
         /\ ReturnsGiven(bev'.name, bev'.arg)
         /\ \A f \in Filters \ {bev'.name} :
                /\ HasConstraint(constraints', f) = HasConstraint(constraints, f)
                /\ HasConstraint(constraints, f)
                      => constraints'[IndexOf(constraints', "filter", f)].value
                            = constraints[IndexOf(constraints, "filter", f)].value
         /\ bev'.result = THIS
    ELSE UNCHANGED constraints

ConstraintsDistinct ==
    \A i, j \in 1..Len(constraints) :
        constraints[i].filter = constraints[j].filter => i = j

\* C17: there is at most one constraint per filter; hasConstraint(f) is true
\* exactly when where(f, .) has been called; getConstraintValue(f) is the value
\* of the most recent where(f, .); where() returns the builder it was called on.
C17_WhereUpserts ==
    /\ constraints = <<>>
    /\ [](ConstraintsDistinct)
    /\ [][WhereSets]_bvars

\* where() was called a second time for a filter, with another value.
C17_ReplacedWitness ==
    /\ bev.op = "where" /\ bev.name = <<"mock_filter">> /\ bev.arg = Num(5)
    /\ Len(constraints) = 1 /\ bcalls = 2

----------------------------------------------------------------------------
\* Claims about Model.clone.

\* The objects an instance holds: its two stores and the nested objects in them
\* and in its own properties.
HeldBy(i, o) ==
    {i.at, i.orig}
        \cup {c \in Cells : \E k \in Keys :
                 \/ o[i.at][k] = Obj(c) \/ o[i.orig][k] = Obj(c) \/ i.dyn[k] = Obj(c)}

\* What getAttributes() and the original snapshot of an instance show, nested
\* objects by their content.
Blank(v) == IF v.t = "object" THEN Obj("") ELSE v
Inside(v, o) == IF v.t = "object" THEN o[v.s[1]] ELSE EmptyMap
Observed(i, o) ==
    LET m == ViewIn(i, o)
    IN  [attributes |-> [k \in Keys |-> Blank(GetAttributes(m)[k])],
         nested |-> [k \in Keys |-> Inside(GetAttributes(m)[k], o)],
         original |-> [k \in Keys |-> Blank(m.original[k])],
         kept |-> [k \in Keys |-> Inside(m.original[k], o)]]

CloneDisjoint ==
    twins["clone"].made
       => HeldBy(twins["clone"], objs) \cap HeldBy(twins["source"], objs) = {}

CloneStartsEqual ==
    (cev.op = "clone" /\ cev.threw = "none")
       => /\ Observed(twins["clone"], objs) = Observed(twins["source"], objs)
          /\ twins["clone"].syncing = twins["source"].syncing
          /\ twins["clone"].exists = twins["source"].exists

CloneReturns == cev.op = "clone" => cev.threw = "none"

\* A write, reset or hydration on one of the two leaves the other as it was.
OtherKept ==
    (cev'.op \in {"set", "nested", "hydrate", "reset"} /\ twins["clone"].made)
       => Observed(twins'[Other(cev'.on)], objs') = Observed(twins[Other(cev'.on)], objs)

\* Every clone that clone() returned is an independent copy of its source.
ReturnedCloneIsIndependent ==
    [](CloneDisjoint /\ CloneStartsEqual) /\ [][OtherKept]_cvars

\* C18: clone() yields a model whose attribute storage and original snapshot
\* are disjoint from the source's, so that writes, reset() and hydration on one
\* leave getAttributes() and the original values of the other unchanged; the
\* clone starts with the source's attribute values, syncing and exists flags.
C18_CloneIsIndependentCopy ==
    [](CloneDisjoint /\ CloneStartsEqual /\ CloneReturns) /\ [][OtherKept]_cvars

----------------------------------------------------------------------------
\* Claims about the models the builder wraps.

\* C19: a model that encapsulateData wrapped from a read payload is marked
\* existing: exists() returns true, and a save() of it issues an update, not an
\* insert.
C19_WrappedModelExists ==
    /\ calls = 0 => (ExistsCallable(model) /\ model.exists)
    /\ ev.op \in {"save", "saveThrew"} => (ev.op = "save" /\ ev.kind = "update")

----------------------------------------------------------------------------
\* Claims about loadNextPage without a builder.

\* C20: loadNextPage() on a collection no builder was attached to raises
\* MissingQueryBuilderException, issues no request and changes no page counter.
C20_NoBuilderLoadRaises ==
    [][(~coll.query /\ pev'.op \in {"load", "MissingQueryBuilderException"})
          => /\ pev'.op = "MissingQueryBuilderException"
             /\ UNCHANGED <<coll, loads, appends>>]_vars

C20_RaisedWitness ==
    /\ pev.op = "MissingQueryBuilderException" /\ ~coll.query
    /\ loads = <<>> /\ CurrentPage(appends) = Num(1)

----------------------------------------------------------------------------
\* Claims about the headers and the argument of execute.

\* C21: every header pair set on the request, two pairs of one name included,
\* is forwarded to the transport call: as many headers as pairs were set.
C21_EveryHeaderForwarded ==
    dev.op = "execute" =>
        /\ Len(dev.headers) = Len(dev.set)
        /\ \A i \in 1..Len(dev.set) : \E j \in 1..Len(dev.headers) :
               dev.headers[j] = dev.set[i]

\* C24: execute() with something that is not an HttpRequest raises
\* InvalidParameterException; no transport call is made and no callback runs.
C24_InvalidRequestRejected ==
    [][(dev'.op \in {"execute", "InvalidParameterException"} /\ dev'.kind # "HttpRequest")
          => (dev'.op = "InvalidParameterException" /\ UNCHANGED wire)]_dvars

\* execute(null) while a request is on the wire, unanswered.
C24_RejectedWitness ==
    /\ dev.op = "InvalidParameterException" /\ dev.kind = "null"
    /\ Len(wire) = 1 /\ wire[1].status = 0

----------------------------------------------------------------------------
\* Claims about Builder.first.

\* first() leaves the limit at 1 and hands the driver one GET request more,
\* whose URL is the query string of the builder and carries limit=1.
FirstIssuesOne ==
    (bev'.op = "first" /\ bcalls' = bcalls + 1) =>
        /\ GetLimit(appends') = Num(1)
        /\ Len(wire') = Len(wire) + 1
        /\ SubSeq(wire', 1, Len(wire)) = wire
        /\ LET w == wire'[Len(wire')]
               segs == QuerySegments(constraints', appends', heap')
           IN  /\ w.method = "GET" /\ w.status = 0
               /\ w.url = Concat(segs)
               /\ \E i \in 1..Len(segs) :
                      segs[i].body = "limit=1" /\ segs[i].sep = Sep(i = 1)

\* An answered request has called the caller's success callback once with the
\* first model of a 200 payload (undefined for an empty one), has passed a 422,
\* 500 or 403 to the error callback with its code, and has called nothing else.
FirstAnswered ==
    \A i \in 1..Len(wire) :
        LET w == wire[i]
        IN  /\ w.status = 200 =>
                  /\ w.user = 1 /\ w.failure = 0
                  /\ IF w.data = <<>> THEN w.first = UNDEF
                     ELSE /\ w.first # UNDEF
                          /\ \A k \in DataKeys :
                                 GetAttributes(w.first)[k] = w.data[1][k]
            /\ w.status \in {422, 500, 403} =>
                  w.user = 0 /\ w.failure = 1 /\ w.code = w.status
            /\ w.status = 0 => w.user = 0 /\ w.failure = 0

\* C22: first(success, error) sets the limit to 1 before the URL is built,
\* issues exactly one GET through the driver, and on a 200 response calls
\* success once with the first model of the result, or with an empty value when
\* the result has none; a failure is passed to error.
C22_FirstUnwrapsFirstModel == [](FirstAnswered) /\ [][FirstIssuesOne]_vars

\* first() after setLimit(-1), answered 200 with two records.
C22_FirstOfTwoWitness ==
    \E i \in 1..Len(wire) :
        /\ wire[i].status = 200 /\ Len(wire[i].data) = 2 /\ wire[i].user = 1
        /\ wire[i].url = "?limit=1&page=1" /\ bcalls = 2

----------------------------------------------------------------------------
\* Claims about the reserved attribute name.

\* C23: fill() and _hydrate() given a mapping that holds the key '_' raise
\* InvalidAttributeException, and the holder `_` of the internal state is never
\* replaced by attribute data.
C23_ReservedKeyRejected ==
    /\ ev.op \in {"fillReserved", "hydrateReserved"}
          => ev.kind = "InvalidAttributeException"
    /\ model.holder = "state"

\* The same for every model whose `exists` method is not shadowed.
ReservedKeyRejectedUnlessShadowed ==
    /\ (ev.op = "fillReserved" \/ (ev.op = "hydrateReserved" /\ ExistsCallable(model)))
          => ev.kind = "InvalidAttributeException"
    /\ model.holder = "state"

----------------------------------------------------------------------------
\* Claims about the request of save().

\* C25: every save() issues one request: an update filtered by the current
\* value of the primary key when the model exists, an insert otherwise; the
\* attributes sent are the dirty ones plus the entry of the primary key.
C25_SaveIssuesOneRequest ==
    ev.op \in {"save", "saveThrew"} =>
        /\ ev.op = "save"
        /\ reqs # <<>>
        /\ LET r == reqs[Len(reqs)]
           IN  /\ r.kind = IF model.exists THEN "update" ELSE "insert"
               /\ r.kind = "update" => r.filter = GetAttribute(model, primary_key)
               /\ \A k \in Keys :
                      r.sent[k] = IF k = primary_key \/ k \in DirtyKeys(model)
                                  THEN GetAttribute(model, k) ELSE UNDEF

\* The same for every save() that gets as far as its request.
SaveRequestWellFormed ==
    ev.op = "save" =>
        /\ reqs # <<>>
        /\ LET r == reqs[Len(reqs)]
           IN  /\ r.kind = IF model.exists THEN "update" ELSE "insert"
               /\ r.kind = "update" => r.filter = GetAttribute(model, primary_key)
               /\ \A k \in Keys :
                      r.sent[k] = IF k = primary_key \/ k \in DirtyKeys(model)
                                  THEN GetAttribute(model, k) ELSE UNDEF

----------------------------------------------------------------------------
\* Claims about reset().

\* C26: after reset(), every attribute the model stored before the call reads
\* as its original value, by property access and in getAttributes(), if it has
\* one, and is absent from getAttributes() if it has none.
C26_ResetReadsOriginals ==
    [][(ev'.op = "reset" /\ calls' = calls + 1) =>
          \A k \in GetAttributesKeys(model) :
              IF HasOriginal(model, k)
              THEN /\ PropGet(model', k) = GetOriginal(model, k)
                   /\ GetAttributes(model')[k] = GetOriginal(model, k)
              ELSE k \notin GetAttributesKeys(model')]_mvars

\* What reset() does restore: the value getAttribute() reads.
ResetRestoresStored ==
    [][(ev'.op = "reset" /\ calls' = calls + 1) =>
          \A k \in GetAttributesKeys(model) :
              GetAttribute(model', k) = GetOriginal(model, k)]_mvars

----------------------------------------------------------------------------
\* Claims about a save() the server refuses.

\* C27: when a save() fails with status 422 the handler leaves the attributes,
\* the original snapshot and the exists flag as they were, so that an instance
\* nothing else touched holds the record it held when save() was called;
\* isSyncing() is false and the caller's error callback ran once with 422.
C27_Refused422KeepsModel ==
    [][(ev'.op = "saveFailed" /\ ev'.code = 422 /\ Len(reqs') < Len(reqs)) =>
          /\ model' = [model EXCEPT !.syncing = FALSE]
          /\ ~model.syncing'
          /\ ev'.quiet => Stored(model') = ev'.pre
          /\ ev'.told = ToldError(422)]_mvars

\* A save() of a dirty instance refused with 422, nothing else having happened.
C27_RefusedWitness ==
    /\ ev.op = "saveFailed" /\ ev.code = 422 /\ ev.quiet
    /\ DirtyKeys(model) # {}
    /\ \E k \in Keys : HasOriginal(model, k)

----------------------------------------------------------------------------
\* Claims about loadNextPage on a collection with a builder.

\* C28: loadNextPage() raises MissingQueryBuilderException only when no builder
\* is attached to the collection, whatever the attached builder's limit is.
C28_RaisesOnlyWithoutBuilder ==
    pev.op = "MissingQueryBuilderException" => ~coll.query

\* What the test of loadNextPage gives: the exception is raised exactly when no
\* builder is attached or the builder's limit is -1.
RaisesWithoutBuilderOrLimit ==
    [][pev'.op \in {"load", "MissingQueryBuilderException"} /\ pcalls' = pcalls + 1 =>
          (pev'.op = "MissingQueryBuilderException"
              <=> (~coll.query \/ GetLimit(appends) = Num(-1)))]_pvars

\* C29: once every loadNextPage() of a collection has got its response, each
\* with a status the driver has a handler for, the page is the one from before
\* the calls plus the number of calls that succeeded.
C29_PageCountsSuccesses ==
    (loads = <<>> /\ coll.calls > 0 /\ coll.stray = 0) =>
        CurrentPage(appends) = Num(coll.start + coll.won)

\* Two calls outstanding together, one succeeded and one failed.
C29_MixedWitness ==
    /\ loads = <<>> /\ coll.calls = 2 /\ coll.won = 1 /\ coll.stray = 0
    /\ pev.op = "loaded"

\* With responses of any status counted as resolved the page also keeps the
\* increment of every call no handler ran for.
PageCountsEveryResponse ==
    (loads = <<>> /\ coll.calls > 0) => CurrentPage(appends) = Num(coll.start + coll.won)

----------------------------------------------------------------------------
\* Claims about the exists flag.

\* exists() returns true: the method is callable on the instance and _.exists
\* is set.
ExistsReportsTrue(m) == ExistsCallable(m) /\ m.exists

ExistsTrueAfterDelete == ev.op = "deleted" => ExistsReportsTrue(model)

\* The flag _.exists itself is never cleared.
ExistsFlagStaysSet == [][model.exists => model'.exists]_mvars
====
